---------------------------- MODULE Spec2Model ----------------------------
(***************************************************************************)
(* Two programs share the scheduler and the shutdown path: the single-job  *)
(* runner (loadConfig, one http job, fatal on a configuration error) and   *)
(* the multi-job runner, which the rest of this header describes.          *)
(* The multi-job cron runner (package main): loadConfigs reads the indexed *)
(* environment, main registers one cron entry per loaded Config, starts    *)
(* the scheduler, waits for SIGINT/SIGTERM and drains the running jobs.    *)
(* Time is counted in minutes, the resolution of a five-field cron         *)
(* expression.  The scheduler library (robfig/cron/v3) is modelled by what *)
(* main's calls to it do: AddFunc parses and appends an entry, Start       *)
(* launches the run loop, the run loop starts one goroutine per due entry, *)
(* Stop ends the run loop and hands back a context that is done when the   *)
(* job wait group is empty.                                                *)
(***************************************************************************)
EXTENDS Integers, Sequences, FiniteSets, TLC

VARIABLES
    env,         \* the process environment: index -> the variables of job i; the
                 \* variables without an index, of the single-job runner, are at index 0
    pc,          \* position of main
    i,           \* index of the registration loop over configs
    configs,     \* result of loadConfigs
    entries,     \* the scheduler's entries, in registration order
    cronRunning, \* the scheduler's run loop is alive
    clock,       \* wall clock, in minutes
    startedAt,   \* the clock when c.Start() was called, -1 before
    history,     \* every job run ever started: <<[e, at]>>, a run's id is its position
    inflight,    \* ids of the runs whose goroutine has not returned
    held,        \* ids of the shell runs whose subprocess was killed at the deadline while
                 \* a process it left behind keeps its output pipe open
    last,        \* the run that returned most recently: [e, at, resp, out, logged, conf],
                 \* e its entry, at the minute of its return, logged what it logged on
                 \* its end, conf the jobConf its closure read
    handler,     \* signal.Notify has installed the quit channel
    quit,        \* number of signals buffered in the quit channel (capacity 1)
    exitCode,    \* exit status of the process, -1 while it is alive
    log          \* the events logged by loadConfigs and main

vars == <<env, pc, i, configs, entries, cronRunning, clock, startedAt,
          history, inflight, held, last, handler, quit, exitCode, log>>

---------------------------------------------------------------------------
(* Bounds of the model *)

\* indices 1..MaxIdx of the environment may hold a job; every later index is unset
MaxIdx == 2
\* the wall clock runs from minute 0 to minute MaxTime
MaxTime == 2

\* the loader is also checked alone over the indices 1..LoaderIdx
LoaderIdx == 3

\* a process with a single job is followed for LongTime minutes, past the deadline of
\* a shell command
LongTime == 8

(* Program constants, in minutes *)

\* http.Client{Timeout: 60 * time.Second}
HttpTimeout == 1
\* context.WithTimeout(context.Background(), 5*time.Minute)
ShellTimeout == 5
\* make(chan os.Signal, 1)
QuitCap == 1
\* context.WithTimeout(context.Background(), 30*time.Second) of the single-job runner, in
\* whole minutes: a run does not last into the minute after its start
SingleTimeout == 0

---------------------------------------------------------------------------
(* Cron expressions.  An expression is the sequence of its space-separated *)
(* fields.  The standard parser wants exactly five fields, each well      *)
(* formed; the minute field decides the matching minutes of the hour, the *)
(* hour field the matching hours of the day, and the other three fields   *)
(* are "*" in every expression of the model.  The clock starts at 00:00.  *)

EveryMinute == <<"*", "*", "*", "*", "*">>
EverySecondMinute == <<"*/2", "*", "*", "*", "*">>
TooFewFields == <<"*/5", "*">>
BadMinute == <<"61", "*", "*", "*", "*">>
Unset == <<>>
\* the schedule loadConfig of the single-job runner takes when CRON_SCHEDULE is unset
DefaultSchedule == <<"0", "*/6", "*", "*", "*">>

\* the minutes of the hour a well-formed minute field selects; {} if malformed
MinuteField(f) ==
    CASE f = "*"   -> 0..59
      [] f = "0"   -> {0}
      [] f = "*/2" -> {m \in 0..59 : m % 2 = 0}
      [] f = "*/5" -> {m \in 0..59 : m % 5 = 0}
      [] OTHER     -> {}

\* the hours of the day a well-formed hour field selects; {} if malformed
HourField(f) ==
    CASE f = "*"   -> 0..23
      [] f = "*/6" -> {h \in 0..23 : h % 6 = 0}
      [] OTHER     -> {}

\* a field of the day of the month, the month or the day of the week is well formed
OtherFieldOk(f) == f = "*"

\* cron.ParseStandard as AddFunc calls it: [ok, minutes, hours]
Parse(spec) ==
    IF Len(spec) # 5
    THEN [ok |-> FALSE, minutes |-> {}, hours |-> {}]
    ELSE IF \/ MinuteField(spec[1]) = {}
            \/ HourField(spec[2]) = {}
            \/ \E k \in 3..5 : ~OtherFieldOk(spec[k])
         THEN [ok |-> FALSE, minutes |-> {}, hours |-> {}]
         ELSE [ok |-> TRUE, minutes |-> MinuteField(spec[1]), hours |-> HourField(spec[2])]

\* minute u of the clock is one of schedule s (its minutes of the hour, hours of the day)
Fits(s, u) == (u % 60) \in s.minutes /\ ((u \div 60) % 24) \in s.hours

\* mutant: the first matching minute at or after t
NextAtOrAfter(s, t) ==
    CHOOSE u \in t..(t + 1440) :
        /\ Fits(s, u)
        /\ \A v \in t..(u - 1) : ~Fits(s, v)

\* Schedule.Next(t): the first matching minute strictly after t
NextAfter(s, t) ==
    CHOOSE u \in (t + 1)..(t + 1440) :
        /\ Fits(s, u)
        /\ \A v \in (t + 1)..(u - 1) : ~Fits(s, v)

---------------------------------------------------------------------------
(* The environment.  EnvEntries are the settings of one index.            *)

EnvJob(sch, ty, url, sec, cmd, ctr, nm) ==
    [schedule |-> sch, jobType |-> ty, url |-> url, secret |-> sec,
     command |-> cmd, container |-> ctr, name |-> nm]

EnvEntries ==
    { EnvJob(Unset, "", "", "", "", "", ""),
      EnvJob(EveryMinute, "", "https://a/hook", "tok", "", "", ""),
      EnvJob(EverySecondMinute, "shell", "", "", "echo hello", "", "backup"),
      EnvJob(EveryMinute, "http", "", "tok", "", "", ""),
      EnvJob(EveryMinute, "ftp", "https://a/hook", "tok", "", "", ""),
      EnvJob(TooFewFields, "http", "https://a/hook", "tok", "", "", ""),
      EnvJob(BadMinute, "shell", "", "", "echo hello", "", "") }

\* a text that is no URL: url.Parse finds no protocol scheme before its first colon
BadURL == "::not a url"

\* http.NewRequest("GET", u, nil) returns a request: u parses as a URL
URLParses(u) == u # BadURL

\* the settings of one index the loader is checked with: every way an index can miss a
\* field its type requires, next to the unset index and the valid jobs
LoaderEntries ==
    { EnvJob(Unset, "", "", "", "", "", ""),
      EnvJob(EveryMinute, "", "https://a/hook", "tok", "", "", ""),
      EnvJob(EverySecondMinute, "shell", "", "", "echo hello", "db", "backup"),
      EnvJob(EveryMinute, "http", "", "tok", "", "", ""),
      EnvJob(EveryMinute, "http", "https://a/hook", "", "", "", ""),
      EnvJob(EveryMinute, "", "", "", "echo hello", "", ""),
      EnvJob(EveryMinute, "shell", "https://a/hook", "tok", "", "", ""),
      EnvJob(EveryMinute, "ftp", "https://a/hook", "tok", "echo hello", "", "") }

\* the settings of CRON_SCHEDULE, CRON_TARGET_URL and CRON_SECRET of the single-job runner
SingleEntries ==
    { EnvJob(EveryMinute, "", "https://a/hook", "tok", "", "", ""),
      EnvJob(Unset, "", "https://a/hook", "tok", "", "", ""),
      EnvJob(EveryMinute, "", "", "tok", "", "", ""),
      EnvJob(EveryMinute, "", "https://a/hook", "", "", "", ""),
      EnvJob(Unset, "", "", "", "", "", ""),
      EnvJob(TooFewFields, "", "https://a/hook", "tok", "", "", ""),
      EnvJob(BadMinute, "", "https://a/hook", "tok", "", "", "") }

\* the process is the single-job runner
SingleRunner == DOMAIN env = {0}

\* the single jobs that are followed past the deadlines of their runs
TimedEntries ==
    { EnvJob(EveryMinute, "http", "https://a/hook", "tok", "", "", ""),
      EnvJob(EveryMinute, "http", BadURL, "tok", "", "", ""),
      EnvJob(EverySecondMinute, "shell", "", "", "sleep 3600 & wait", "", "") }

\* the last minute of the wall clock
Horizon == IF env \in [1..1 -> TimedEntries] THEN LongTime ELSE MaxTime

\* os.Getenv of the variables of index k: unset beyond MaxIdx
Getenv(e, k) ==
    IF k \in DOMAIN e THEN e[k] ELSE EnvJob(Unset, "", "", "", "", "", "")

---------------------------------------------------------------------------
(* loadConfigs *)

Event(level, msg, job) == [level |-> level, msg |-> msg, job |-> job]

\* the Config built for index k, before validation
ConfigOf(e, k) ==
    LET v == Getenv(e, k)
        jobType == IF v.jobType = "" THEN "http" ELSE v.jobType
        jobName == IF v.name = "" THEN "job_#" \o ToString(k) ELSE v.name
    IN [Name |-> jobName, Schedule |-> v.schedule, JobType |-> jobType,
        TargetURL |-> IF jobType = "http" THEN v.url ELSE "",
        SecretToken |-> IF jobType = "http" THEN v.secret ELSE "",
        ShellCommand |-> IF jobType = "shell" THEN v.command ELSE "",
        ShellTargetContainer |-> IF jobType = "shell" THEN v.container ELSE ""]

\* mutant: the switch on jobType has no default case
ValidationErrorNoDefault(c) ==
    CASE c.JobType = "http" ->
           LET afterURL == IF c.TargetURL = "" THEN "CRON_TARGET_URL is required" ELSE ""
           IN IF c.SecretToken = "" THEN "CRON_SECRET is required" ELSE afterURL
      [] c.JobType = "shell" ->
           IF c.ShellCommand = "" THEN "SHELL_COMMAND is required" ELSE ""
      [] OTHER -> ""

\* the switch on jobType: the validation error left in validationError, "" if none
\* (for http the check of the secret comes second and overwrites the URL's error)
ValidationError(c) ==
    CASE c.JobType = "http" ->
           LET afterURL == IF c.TargetURL = "" THEN "CRON_TARGET_URL is required" ELSE ""
           IN IF c.SecretToken = "" THEN "CRON_SECRET is required" ELSE afterURL
      [] c.JobType = "shell" ->
           IF c.ShellCommand = "" THEN "SHELL_COMMAND is required" ELSE ""
      [] OTHER -> "unknown JOB_TYPE: " \o c.JobType

RECURSIVE LoadFromBreak(_, _, _, _)
\* mutant: a validation error ends the scan (break in the place of continue)
LoadFromBreak(e, k, cs, lg) ==
    IF Getenv(e, k).schedule = Unset
    THEN [configs |-> cs, log |-> lg]
    ELSE LET c == ConfigOf(e, k)
             err == ValidationError(c)
         IN IF err # ""
            THEN [configs |-> cs,
                  log |-> Append(lg, Event("ERROR", "Skipping invalid job configuration: " \o err, c.Name))]
            ELSE LoadFromBreak(e, k + 1, Append(cs, c),
                               Append(lg, Event("INFO", "Successfully loaded job configuration", c.Name)))

RECURSIVE LoadFromPastGap(_, _, _, _)
\* mutant: an unset schedule is stepped over (continue in the place of break) as long as
\* the environment has later indices
LoadFromPastGap(e, k, cs, lg) ==
    IF k \notin DOMAIN e
    THEN [configs |-> cs, log |-> lg]
    ELSE IF Getenv(e, k).schedule = Unset
    THEN LoadFromPastGap(e, k + 1, cs, lg)
    ELSE LET c == ConfigOf(e, k)
             err == ValidationError(c)
         IN IF err # ""
            THEN LoadFromPastGap(e, k + 1, cs,
                     Append(lg, Event("ERROR", "Skipping invalid job configuration: " \o err, c.Name)))
            ELSE LoadFromPastGap(e, k + 1, Append(cs, c),
                     Append(lg, Event("INFO", "Successfully loaded job configuration", c.Name)))

RECURSIVE LoadFrom(_, _, _, _)
\* the loop body for index k and on: stops at the first unset schedule
LoadFrom(e, k, cs, lg) ==
    IF Getenv(e, k).schedule = Unset
    THEN [configs |-> cs, log |-> lg]
    ELSE LET c == ConfigOf(e, k)
             err == ValidationError(c)
         IN IF err # ""
            THEN LoadFrom(e, k + 1, cs,
                          Append(lg, Event("ERROR", "Skipping invalid job configuration: " \o err, c.Name)))
            ELSE LoadFrom(e, k + 1, Append(cs, c),
                          Append(lg, Event("INFO", "Successfully loaded job configuration", c.Name)))

loadConfigs(e) == LoadFrom(e, 1, <<>>, <<>>)

\* loadConfig of the single-job runner: [err, config]; the job is the http job
loadConfig(e) ==
    LET v == Getenv(e, 0)
        schedule == IF v.schedule = Unset THEN DefaultSchedule ELSE v.schedule
    IN IF v.url = ""
       THEN [err |-> "CRON_TARGET_URL environment variable is not set", config |-> <<>>]
       ELSE IF v.secret = ""
       THEN [err |-> "CRON_SECRET environment variable is not set", config |-> <<>>]
       ELSE [err |-> "",
             config |-> [Name |-> "", Schedule |-> schedule, JobType |-> "http",
                         TargetURL |-> v.url, SecretToken |-> v.secret,
                         ShellCommand |-> "", ShellTargetContainer |-> ""]]

---------------------------------------------------------------------------
(* Job runs.  A run is one call of the closure main built for its entry;   *)
(* what the outside world answers is the run's response.                   *)

Resp(kind, code, stderr) == [kind |-> kind, code |-> code, stderr |-> stderr]

\* http.NewRequest fails, or httpClient.Do gives an error before any response, the
\* client's timeout, or a status
HttpResponses ==
    {Resp("request_error", 0, FALSE), Resp("error", 0, FALSE), Resp("timeout", 0, FALSE)}
    \cup {Resp("status", c, FALSE) : c \in {200, 399, 400, 500}}

\* cmd.Run: the subprocess does not start, is killed at the deadline, or exits
ShellResponses ==
    {Resp("start_error", 0, FALSE), Resp("timeout", 0, TRUE), Resp("timeout", 0, FALSE)}
    \cup {Resp("exit", c, b) : c \in {0, 1}, b \in BOOLEAN}

\* an unexpected runtime fault inside the closure
Panic == Resp("panic", 0, FALSE)

\* mutant: the comparison of the status is strict
HttpOutcomeAbove400(r) ==
    IF r.kind # "status" THEN "Failure"
    ELSE IF r.code > 400 THEN "Failure" ELSE "Success"

\* mutant: output on stderr counts as a failure of the command
ShellOutcomeStderrFails(r) ==
    IF r.kind = "exit" /\ r.code = 0 /\ ~r.stderr THEN "Success" ELSE "Failure"

\* the http closure: err from Do, then resp.StatusCode >= 400
HttpOutcome(r) ==
    IF r.kind # "status" THEN "Failure"
    ELSE IF r.code >= 400 THEN "Failure" ELSE "Success"

\* the shell closure: err from cmd.Run decides, stderr is only logged
ShellOutcome(r) ==
    IF r.kind = "exit" /\ r.code = 0 THEN "Success" ELSE "Failure"

Timeout(jobType) ==
    IF SingleRunner THEN SingleTimeout
    ELSE IF jobType = "http" THEN HttpTimeout ELSE ShellTimeout

Responses(jobType) == IF jobType = "http" THEN HttpResponses ELSE ShellResponses

Outcome(jobType, r) == IF jobType = "http" THEN HttpOutcome(r) ELSE ShellOutcome(r)

\* what the http closure logs once httpClient.Do has returned
HttpLog(r) ==
    IF r.kind = "request_error"
    THEN <<[level |-> "ERROR", msg |-> "Failed to create request"]>>
    ELSE IF r.kind # "status"
    THEN <<[level |-> "ERROR", msg |-> "Failed to execute request"]>>
    ELSE IF r.code >= 400 THEN <<[level |-> "ERROR", msg |-> "Request failed"]>>
    ELSE <<[level |-> "INFO", msg |-> "Job completed successfully"]>>

\* what the shell closure logs once cmd.Run has returned: stderr if any, then the result
ShellLog(r) ==
    (IF r.stderr THEN <<[level |-> "ERROR", msg |-> "Command stderr"]>> ELSE <<>>)
    \o (IF r.kind = "exit" /\ r.code = 0
        THEN <<[level |-> "INFO", msg |-> "Job completed successfully"]>>
        ELSE <<[level |-> "ERROR", msg |-> "Shell command failed to execute"]>>)

\* what the closure of the single-job runner logs once client.Do has returned
SingleLog(r) ==
    IF r.kind = "request_error"
    THEN <<[level |-> "ERROR", msg |-> "Failed to create request"]>>
    ELSE IF r.kind # "status"
    THEN <<[level |-> "ERROR", msg |-> "Failed to execute request"]>>
    ELSE IF r.code >= 400
    THEN <<[level |-> "ERROR", msg |-> "Request failed with non-2xx status code"]>>
    ELSE <<[level |-> "INFO", msg |-> "CRON job completed successfully"]>>

JobLog(jobType, r) ==
    IF SingleRunner THEN SingleLog(r)
    ELSE IF jobType = "http" THEN HttpLog(r) ELSE ShellLog(r)

\* mutant: the scheduler is built without the Recover wrapper
ChainNoRecover == {}

\* mutant: the chain also holds cron.SkipIfStillRunning
ChainSkipIfStillRunning == {"Recover", "SkipIfStillRunning"}

\* cron.WithChain(cron.Recover(cronLogger)): the wrappers put around every job
Chain == {"Recover"}

---------------------------------------------------------------------------
(* The scheduler *)

\* var job func(); switch jobConf.JobType: the closure built for a config, by its kind;
\* the switch has no default case, so job stays nil for any other type
JobOf(conf) ==
    CASE conf.JobType = "http"  -> "http"
      [] conf.JobType = "shell" -> "shell"
      [] OTHER                  -> "nil"

\* c.AddFunc(jobConf.Schedule, job): the entries after the call; unchanged on a parse
\* error.  conf is the jobConf the closure has captured
AddFunc(es, conf) ==
    LET p == Parse(conf.Schedule)
    IN IF p.ok
       THEN Append(es, [conf |-> conf, job |-> JobOf(conf), next |-> -1])
       ELSE es

\* the Schedule of an entry, as AddFunc parsed it
ScheduleOf(e) == Parse(e.conf.Schedule)

\* the run loop's test of an entry against the time the timer woke it
Due(e, now) == e.next <= now

\* mutant: the run loop leaves its scan after the first due entry
DueFirstOnly(es, now) ==
    {k \in DOMAIN es : Due(es[k], now) /\ \A x \in 1..(k - 1) : ~Due(es[x], now)}

\* the entries the run loop starts at time now
DueSet(es, now) == {k \in DOMAIN es : Due(es[k], now)}

\* ids of the runs of entry k that have not returned
Running(k) == {id \in inflight : history[id].e = k}

\* the wrapped job of entry k is started when it is due (no wrapper of Chain skips it)
Starts(k) == "SkipIfStillRunning" \notin Chain \/ Running(k) = {}

RECURSIVE StartAll(_, _, _)
\* startJob for the due entries, in entry order: the history after the loop
StartAll(hs, ks, now) ==
    IF ks = {} THEN hs
    ELSE LET k == CHOOSE x \in ks : \A y \in ks : x <= y
         IN StartAll(IF Starts(k) THEN Append(hs, [e |-> k, at |-> now]) ELSE hs,
                     ks \ {k}, now)

---------------------------------------------------------------------------
(* The lifecycle *)

Alive == pc \notin {"done", "killed", "crashed"}

\* the controller's state
State ==
    CASE pc \in {"load", "load1"} -> "Loading"
      [] pc \in {"register", "start", "register1", "start1"} -> "Scheduling"
      [] pc \in {"notify", "wait"} -> "Running"
      [] pc \in {"stop", "drain"} -> "ShuttingDown"
      [] pc = "done" /\ cronRunning = FALSE /\ startedAt >= 0 -> "Stopped"
      [] OTHER -> "Exited"

Init ==
    /\ env \in [1..MaxIdx -> EnvEntries]
    /\ pc = "load"
    /\ i = 1
    /\ configs = <<>>
    /\ entries = <<>>
    /\ cronRunning = FALSE
    /\ clock = 0
    /\ startedAt = -1
    /\ history = <<>>
    /\ inflight = {}
    /\ held = {}
    /\ last = [e |-> 0, at |-> 0, resp |-> Resp("none", 0, FALSE), out |-> "none",
               logged |-> <<>>, conf |-> <<>>]
    /\ handler = FALSE
    /\ quit = 0
    /\ exitCode = -1
    /\ log = <<>>

\* mutant: no valid job is a failure (os.Exit(1))
LoadExitOne ==
    /\ pc = "load"
    /\ LET r == loadConfigs(env)
       IN /\ configs' = r.configs
          /\ IF Len(r.configs) = 0
             THEN /\ log' = Append(r.log, Event("WARN", "No valid jobs configured. Exiting.", ""))
                  /\ pc' = "done"
                  /\ exitCode' = 1
             ELSE /\ log' = r.log
                  /\ pc' = "register"
                  /\ exitCode' = exitCode
    /\ i' = 1
    /\ UNCHANGED <<env, held, entries, cronRunning, clock, startedAt, history, inflight,
                   last, handler, quit>>

\* mutant: main does not test len(configs) and goes on to build the scheduler
LoadNoCheck ==
    /\ pc = "load"
    /\ configs' = loadConfigs(env).configs
    /\ log' = loadConfigs(env).log
    /\ pc' = IF Len(configs') = 0 THEN "start" ELSE "register"
    /\ i' = 1
    /\ UNCHANGED <<env, held, entries, cronRunning, clock, startedAt, history, inflight,
                   last, handler, quit, exitCode>>

\* configs := loadConfigs(logger); if len(configs) == 0 { Warn; os.Exit(0) }
Load ==
    /\ pc = "load"
    /\ LET r == loadConfigs(env)
       IN /\ configs' = r.configs
          /\ IF Len(r.configs) = 0
             THEN /\ log' = Append(r.log, Event("WARN", "No valid jobs configured. Exiting.", ""))
                  /\ pc' = "done"
                  /\ exitCode' = 0
             ELSE /\ log' = r.log
                  /\ pc' = "register"
                  /\ exitCode' = exitCode
    /\ i' = 1
    /\ UNCHANGED <<env, held, entries, cronRunning, clock, startedAt, history, inflight,
                   last, handler, quit>>

\* mutant: an error of AddFunc is fatal (logger.Error, then os.Exit(1))
RegisterOrExit ==
    /\ pc = "register"
    /\ i <= Len(configs)
    /\ entries' = AddFunc(entries, configs[i])
    /\ i' = i + 1
    /\ IF Parse(configs[i].Schedule).ok
       THEN /\ log' = log
            /\ pc' = IF i = Len(configs) THEN "start" ELSE "register"
            /\ exitCode' = exitCode
       ELSE /\ log' = Append(log, Event("ERROR", "Failed to add CRON job", configs[i].Name))
            /\ pc' = "done"
            /\ exitCode' = 1
    /\ UNCHANGED <<env, held, configs, cronRunning, clock, startedAt, history, inflight,
                   last, handler, quit>>

\* mutant: the closures capture the loop variable config itself, not a copy of it, so
\* after an iteration every closure built so far reads the config of that iteration
RegisterSharedVar ==
    /\ pc = "register"
    /\ i <= Len(configs)
    /\ entries' = [k \in DOMAIN AddFunc(entries, configs[i]) |->
                     [AddFunc(entries, configs[i])[k] EXCEPT !.conf = configs[i]]]
    /\ log' = IF Parse(configs[i].Schedule).ok THEN log
              ELSE Append(log, Event("ERROR", "Failed to add CRON job", configs[i].Name))
    /\ i' = i + 1
    /\ pc' = IF i = Len(configs) THEN "start" ELSE "register"
    /\ UNCHANGED <<env, held, configs, cronRunning, clock, startedAt, history, inflight,
                   last, handler, quit, exitCode>>

\* one iteration of the loop over configs: jobConf := config, the closure over jobConf,
\* AddFunc; an error is logged and the loop goes on
Register ==
    /\ pc = "register"
    /\ i <= Len(configs)
    /\ entries' = AddFunc(entries, configs[i])
    /\ log' = IF Parse(configs[i].Schedule).ok THEN log
              ELSE Append(log, Event("ERROR", "Failed to add CRON job", configs[i].Name))
    /\ i' = i + 1
    /\ pc' = IF i = Len(configs) THEN "start" ELSE "register"
    /\ UNCHANGED <<env, held, configs, cronRunning, clock, startedAt, history, inflight,
                   last, handler, quit, exitCode>>

\* mutant: the count that is logged is len(configs), not len(c.Entries())
StartCountsConfigs ==
    /\ pc = "start"
    /\ cronRunning' = TRUE
    /\ startedAt' = clock
    /\ entries' = [k \in DOMAIN entries |->
                     [entries[k] EXCEPT !.next = NextAfter(ScheduleOf(entries[k]), clock)]]
    /\ log' = Append(log, Event("INFO", "CRON scheduler started with configured jobs.",
                                ToString(Len(configs))))
    /\ pc' = "notify"
    /\ UNCHANGED <<env, held, i, configs, clock, history, inflight, last, handler, quit,
                   exitCode>>

\* c.Start(): the run loop computes every entry's next time from now; then the count is logged
Start ==
    /\ pc = "start"
    /\ cronRunning' = TRUE
    /\ startedAt' = clock
    /\ entries' = [k \in DOMAIN entries |->
                     [entries[k] EXCEPT !.next = NextAfter(ScheduleOf(entries[k]), clock)]]
    /\ log' = Append(log, Event("INFO", "CRON scheduler started with configured jobs.",
                                ToString(Len(entries))))
    /\ pc' = "notify"
    /\ UNCHANGED <<env, held, i, configs, clock, history, inflight, last, handler, quit,
                   exitCode>>

\* the single-job runner: config, err := loadConfig(); if err != nil { Error; os.Exit(1) }
LoadSingle ==
    /\ pc = "load1"
    /\ LET r == loadConfig(env)
       IN IF r.err # ""
          THEN /\ configs' = <<>>
               /\ log' = Append(log, Event("ERROR", "Failed to load configuration: " \o r.err, ""))
               /\ pc' = "done"
               /\ exitCode' = 1
          ELSE /\ configs' = <<r.config>>
               /\ log' = Append(log, Event("INFO", "Configuration loaded", ""))
               /\ pc' = "register1"
               /\ exitCode' = exitCode
    /\ UNCHANGED <<env, held, i, entries, cronRunning, clock, startedAt, history, inflight,
                   last, handler, quit>>

\* the single-job runner: _, err = c.AddFunc(...); if err != nil { Error; os.Exit(1) }
RegisterSingle ==
    /\ pc = "register1"
    /\ entries' = AddFunc(entries, configs[1])
    /\ IF Parse(configs[1].Schedule).ok
       THEN /\ log' = log
            /\ pc' = "start1"
            /\ exitCode' = exitCode
       ELSE /\ log' = Append(log, Event("ERROR", "Failed to add CRON job", ""))
            /\ pc' = "done"
            /\ exitCode' = 1
    /\ UNCHANGED <<env, held, i, configs, cronRunning, clock, startedAt, history, inflight,
                   last, handler, quit>>

\* the single-job runner: c.Start(), then the start is logged
StartSingle ==
    /\ pc = "start1"
    /\ cronRunning' = TRUE
    /\ startedAt' = clock
    /\ entries' = [k \in DOMAIN entries |->
                     [entries[k] EXCEPT !.next = NextAfter(ScheduleOf(entries[k]), clock)]]
    /\ log' = Append(log, Event("INFO",
                     "CRON scheduler started. Waiting for signals to shut down.", ""))
    /\ pc' = "notify"
    /\ UNCHANGED <<env, held, i, configs, clock, history, inflight, last, handler, quit,
                   exitCode>>

\* quit := make(chan os.Signal, 1); signal.Notify(quit, SIGINT, SIGTERM)
Notify ==
    /\ pc = "notify"
    /\ handler' = TRUE
    /\ pc' = "wait"
    /\ UNCHANGED <<env, held, i, configs, entries, cronRunning, clock, startedAt, history,
                   inflight, last, quit, exitCode, log>>

\* mutant: main also goes on to the shutdown when the runs started so far have all returned
WaitOrIdle ==
    /\ pc = "wait"
    /\ quit > 0 \/ (history # <<>> /\ inflight = {})
    /\ quit' = IF quit > 0 THEN quit - 1 ELSE quit
    /\ log' = Append(log, Event("INFO", "Shutting down CRON runner...", ""))
    /\ pc' = "stop"
    /\ UNCHANGED <<env, held, i, configs, entries, cronRunning, clock, startedAt, history,
                   inflight, last, handler, exitCode>>

\* <-quit returns once a signal is buffered
Wait ==
    /\ pc = "wait"
    /\ quit > 0
    /\ quit' = quit - 1
    /\ log' = Append(log, Event("INFO", "Shutting down CRON runner...", ""))
    /\ pc' = "stop"
    /\ UNCHANGED <<env, held, i, configs, entries, cronRunning, clock, startedAt, history,
                   inflight, last, handler, exitCode>>

\* mutant: the scheduler is never told to stop; main goes on to wait for the runs
StopNotCalled ==
    /\ pc = "stop"
    /\ pc' = "drain"
    /\ UNCHANGED <<env, held, i, configs, entries, cronRunning, clock, startedAt, history,
                   inflight, last, handler, quit, exitCode, log>>

\* shutdownCtx := c.Stop(): the run loop takes the stop message and returns
Stop ==
    /\ pc = "stop"
    /\ cronRunning' = FALSE
    /\ pc' = "drain"
    /\ UNCHANGED <<env, held, i, configs, entries, clock, startedAt, history, inflight,
                   last, handler, quit, exitCode, log>>

\* mutant: main returns right after c.Stop(), without waiting for shutdownCtx
DrainNoWait ==
    /\ pc = "drain"
    /\ log' = Append(log, Event("INFO", "CRON runner shut down gracefully.", ""))
    /\ pc' = "done"
    /\ exitCode' = 0
    /\ UNCHANGED <<env, held, i, configs, entries, cronRunning, clock, startedAt, history,
                   inflight, last, handler, quit>>

\* mutant: main waits for a second signal on quit instead of shutdownCtx.Done()
DrainOnQuit ==
    /\ pc = "drain"
    /\ quit > 0
    /\ quit' = quit - 1
    /\ log' = Append(log, Event("INFO", "CRON runner shut down gracefully.", ""))
    /\ pc' = "done"
    /\ exitCode' = 0
    /\ UNCHANGED <<env, held, i, configs, entries, cronRunning, clock, startedAt, history,
                   inflight, last, handler>>

\* <-shutdownCtx.Done(): done when the job wait group is empty; main returns
Drain ==
    /\ pc = "drain"
    /\ inflight = {}
    /\ log' = Append(log, Event("INFO", "CRON runner shut down gracefully.", ""))
    /\ pc' = "done"
    /\ exitCode' = 0
    /\ UNCHANGED <<env, held, i, configs, entries, cronRunning, clock, startedAt, history,
                   inflight, last, handler, quit>>

\* the number of a signal
Signo(s) == IF s = "SIGINT" THEN 2 ELSE 15

\* mutant: the handler is reset once main has taken the first signal, so a further
\* signal has its default disposition
SignalResetAfterFirst ==
    /\ Alive
    /\ \E s \in {"SIGINT", "SIGTERM"} :
         IF handler /\ pc \notin {"stop", "drain"}
         THEN /\ quit' = IF quit < QuitCap THEN quit + 1 ELSE quit
              /\ UNCHANGED <<pc, exitCode>>
         ELSE /\ pc' = "killed"
              /\ exitCode' = 128 + Signo(s)
              /\ quit' = quit
    /\ UNCHANGED <<env, held, i, configs, entries, cronRunning, clock, startedAt, history,
                   inflight, last, handler, log>>

\* the environment sends SIGINT or SIGTERM: queued on quit once Notify has run (dropped
\* when quit is full), otherwise the runtime's default disposition ends the process
Signal ==
    /\ Alive
    /\ \E s \in {"SIGINT", "SIGTERM"} :
         IF handler
         THEN /\ quit' = IF quit < QuitCap THEN quit + 1 ELSE quit
              /\ UNCHANGED <<pc, exitCode>>
         ELSE /\ pc' = "killed"
              /\ exitCode' = 128 + Signo(s)
              /\ quit' = quit
    /\ UNCHANGED <<env, held, i, configs, entries, cronRunning, clock, startedAt, history,
                   inflight, last, handler, log>>

\* a minute passes: the run loop's timer has served every entry that was due, and every
\* run at its deadline has had its timeout delivered
Tick ==
    /\ Alive
    /\ clock < Horizon
    /\ cronRunning => DueSet(entries, clock) = {}
    /\ \A id \in inflight \ held :
         clock < history[id].at + Timeout(entries[history[id].e].conf.JobType)
    /\ clock' = clock + 1
    /\ UNCHANGED <<env, held, pc, i, configs, entries, cronRunning, startedAt, history,
                   inflight, last, handler, quit, exitCode, log>>

\* the run loop's timer fires: every due entry gets a goroutine and its next time
CronRun ==
    /\ Alive
    /\ cronRunning
    /\ DueSet(entries, clock) # {}
    /\ history' = StartAll(history, DueSet(entries, clock), clock)
    /\ inflight' = inflight \cup ((Len(history) + 1)..Len(history'))
    /\ entries' = [k \in DOMAIN entries |->
                     IF k \in DueSet(entries, clock)
                     THEN [entries[k] EXCEPT !.next = NextAfter(ScheduleOf(entries[k]), clock)]
                     ELSE entries[k]]
    /\ UNCHANGED <<env, held, pc, i, configs, cronRunning, clock, startedAt, last, handler,
                   quit, exitCode, log>>

\* mutant: a run that fails is started again at once
JobReturnRetry(id, r) ==
    /\ last' = [e |-> history[id].e, at |-> clock, resp |-> r,
                out |-> Outcome(entries[history[id].e].conf.JobType, r),
                logged |-> JobLog(entries[history[id].e].conf.JobType, r),
                conf |-> entries[history[id].e].conf]
    /\ held' = held \ {id}
    /\ IF last'.out = "Failure"
       THEN /\ history' = Append(history, [e |-> history[id].e, at |-> clock])
            /\ inflight' = (inflight \ {id}) \cup {Len(history) + 1}
       ELSE /\ history' = history
            /\ inflight' = inflight \ {id}
    /\ UNCHANGED <<env, pc, i, configs, entries, cronRunning, clock, startedAt,
                   handler, quit, exitCode, log>>

\* the closure of run id returns with the outcome its response gives
JobReturn(id, r) ==
    /\ inflight' = inflight \ {id}
    /\ last' = [e |-> history[id].e, at |-> clock, resp |-> r,
                out |-> Outcome(entries[history[id].e].conf.JobType, r),
                logged |-> JobLog(entries[history[id].e].conf.JobType, r),
                conf |-> entries[history[id].e].conf]
    /\ held' = held \ {id}
    /\ UNCHANGED <<env, pc, i, configs, entries, cronRunning, clock, startedAt,
                   history, handler, quit, exitCode, log>>

\* mutant: Recover unbinds the job that panicked, its entry keeps firing a nil job
JobPanicUnbinds(id) ==
    /\ inflight' = inflight \ {id}
    /\ last' = [e |-> history[id].e, at |-> clock, resp |-> Panic, out |-> "Recovered",
                logged |-> <<[level |-> "ERROR", msg |-> "panic"]>>,
                conf |-> entries[history[id].e].conf]
    /\ held' = held \ {id}
    /\ entries' = [entries EXCEPT ![history[id].e].job = "nil"]
    /\ UNCHANGED <<env, pc, i, configs, cronRunning, clock, startedAt,
                   history, handler, quit, exitCode, log>>

\* the closure of run id panics: Recover logs it and the goroutine ends; without
\* Recover the panic ends the process
JobPanic(id) ==
    IF "Recover" \in Chain
    THEN /\ inflight' = inflight \ {id}
         /\ last' = [e |-> history[id].e, at |-> clock, resp |-> Panic, out |-> "Recovered",
                     logged |-> <<[level |-> "ERROR", msg |-> "panic"]>>,
                     conf |-> entries[history[id].e].conf]
         /\ held' = held \ {id}
         /\ UNCHANGED <<env, pc, i, configs, entries, cronRunning, clock, startedAt,
                        history, handler, quit, exitCode, log>>
    ELSE /\ pc' = "crashed"
         /\ exitCode' = 2
         /\ UNCHANGED <<env, held, i, configs, entries, cronRunning, clock, startedAt,
                        history, inflight, last, handler, quit, log>>

\* run id ends: with a response of its kind (the timeout only at its deadline, and
\* nothing else once the subprocess has been killed) or with a panic; the call of a
\* nil job can only panic, and an http job whose URL does not parse ends at
\* http.NewRequest
RunEnd(id) ==
    /\ Alive
    /\ id \in inflight
    /\ LET ty == entries[history[id].e].job
       IN \/ \E r \in Responses(ty) :
               /\ ty # "nil"
               /\ r.kind = "request_error" <=>
                      ~URLParses(entries[history[id].e].conf.TargetURL)
               /\ r.kind = "timeout" => clock >= history[id].at + Timeout(ty)
               /\ id \in held => r.kind = "timeout"
               /\ JobReturn(id, r)
          \/ id \notin held /\ JobPanic(id)

\* some run in flight ends
JobEnd == \E id \in DOMAIN history : RunEnd(id)

\* the deadline of ctx passes for a shell run: exec.CommandContext kills the subprocess
\* it started (sh, or the docker client) and nothing else; a process the command left
\* behind keeps the write end of the output pipe, and cmd.Run, which copies the pipe
\* into outb and errb until its end (no WaitDelay is set), does not return
PipeHeld ==
    /\ Alive
    /\ \E id \in inflight \ held :
         /\ entries[history[id].e].conf.JobType = "shell"
         /\ clock >= history[id].at + ShellTimeout
         /\ held' = held \cup {id}
    /\ UNCHANGED <<env, pc, i, configs, entries, cronRunning, clock, startedAt, history,
                   inflight, last, handler, quit, exitCode, log>>

Next ==
    \/ Load
    \/ Register
    \/ Start
    \/ Notify
    \/ Wait
    \/ Stop
    \/ Drain
    \/ Signal
    \/ Tick
    \/ CronRun
    \/ JobEnd

Spec == Init /\ [][Next]_vars


\* the loader alone: the process starts with any setting of the indices 1..LoaderIdx,
\* main loads the configs and hands them to the scheduler one by one
LoaderInit ==
    /\ env \in [1..LoaderIdx -> LoaderEntries]
    /\ pc = "load"
    /\ i = 1
    /\ configs = <<>>
    /\ entries = <<>>
    /\ cronRunning = FALSE
    /\ clock = 0
    /\ startedAt = -1
    /\ history = <<>>
    /\ inflight = {}
    /\ held = {}
    /\ last = [e |-> 0, at |-> 0, resp |-> Resp("none", 0, FALSE), out |-> "none",
               logged |-> <<>>, conf |-> <<>>]
    /\ handler = FALSE
    /\ quit = 0
    /\ exitCode = -1
    /\ log = <<>>

LoaderNext ==
    \/ Load
    \/ Register

LoaderSpec == LoaderInit /\ [][LoaderNext]_vars

\* a process with one job, followed for LongTime minutes
TimedInit ==
    /\ env \in [1..1 -> TimedEntries]
    /\ pc = "load"
    /\ i = 1
    /\ configs = <<>>
    /\ entries = <<>>
    /\ cronRunning = FALSE
    /\ clock = 0
    /\ startedAt = -1
    /\ history = <<>>
    /\ inflight = {}
    /\ held = {}
    /\ last = [e |-> 0, at |-> 0, resp |-> Resp("none", 0, FALSE), out |-> "none",
               logged |-> <<>>, conf |-> <<>>]
    /\ handler = FALSE
    /\ quit = 0
    /\ exitCode = -1
    /\ log = <<>>

TimedNext ==
    \/ Next
    \/ PipeHeld

TimedSpec == TimedInit /\ [][TimedNext]_vars

\* the single-job runner starts with any setting of its three variables
SingleInit ==
    /\ env \in [{0} -> SingleEntries]
    /\ pc = "load1"
    /\ i = 1
    /\ configs = <<>>
    /\ entries = <<>>
    /\ cronRunning = FALSE
    /\ clock = 0
    /\ startedAt = -1
    /\ history = <<>>
    /\ inflight = {}
    /\ held = {}
    /\ last = [e |-> 0, at |-> 0, resp |-> Resp("none", 0, FALSE), out |-> "none",
               logged |-> <<>>, conf |-> <<>>]
    /\ handler = FALSE
    /\ quit = 0
    /\ exitCode = -1
    /\ log = <<>>

\* either program
RunnersInit == Init \/ SingleInit

RunnersNext ==
    \/ Next
    \/ LoadSingle
    \/ RegisterSingle
    \/ StartSingle

RunnersSpec == RunnersInit /\ [][RunnersNext]_vars

\* the scheduling of goroutines is fair: main goes on when it can, and (the premise of
\* the shutdown claims) every run in flight returns in the end
FairSpec ==
    /\ Init
    /\ [][Next]_vars
    /\ WF_vars(Wait)
    /\ WF_vars(Stop)
    /\ WF_vars(Drain)
    /\ WF_vars(JobEnd)

---------------------------------------------------------------------------
(* Properties *)

\* entry k's schedule, read from its Config, matches minute t
Matches(k, t) == Fits(Parse(entries[k].conf.Schedule), t)

\* ids of the runs started for entry k at minute t
RunsAt(k, t) == {id \in DOMAIN history : history[id] = [e |-> k, at |-> t]}

\* the runs that leave inflight in a step
Returned == inflight \ inflight'

\* C1: graceful shutdown abandons no run: the process is Stopped only when every run
\* that was started has returned, and while ShuttingDown a run leaves the set of runs in
\* flight only by returning itself (one run per step, recorded as the last return, in
\* a step that is no step of main)
C1_ShutdownWaitsForRuns ==
    /\ [](State = "Stopped" => inflight = {})
    /\ [][(State = "ShuttingDown" /\ Returned # {}) =>
             /\ pc' = pc
             /\ cronRunning' = cronRunning
             /\ \E id \in Returned :
                  /\ Returned = {id}
                  /\ last'.e = history[id].e
                  /\ last'.out \in {"Success", "Failure", "Recovered"}]_vars

\* C1 witness: c.Stop() has been called and main waits while a run is still in flight
C1_Witness == pc = "drain" /\ inflight # {} /\ exitCode = -1

\* C2: a signal taken by the handler while Running leads to Stopped with exit status 0
C2_ShutdownCompletes ==
    (State = "Running" /\ quit > 0) ~> (State = "Stopped" /\ exitCode = 0)

\* C2 witness: the process is Stopped with status 0 after runs had been started
C2_Witness == State = "Stopped" /\ exitCode = 0 /\ Len(history) > 0

\* C3: once c.Stop() has returned no run is started any more
C3_NoStartAfterStop ==
    [][(pc \in {"drain", "done"}) => (history' = history)]_vars

\* C3 witness: main drains runs in flight while an entry's scheduled minute has come
C3_Witness ==
    /\ pc = "drain"
    /\ inflight # {}
    /\ \E k \in DOMAIN entries : Matches(k, clock) /\ RunsAt(k, clock) = {}


\* C4: a panic inside a run never ends the process: the step that recovers it changes
\* nothing of main or of the scheduler, and while the run loop is alive every entry has a
\* run for each of its minutes that came after the panic (for the current minute the
\* run loop may still be about to start it)
C4_PanicIsIsolated ==
    /\ [](pc # "crashed")
    /\ [](last.resp = Panic =>
            /\ last.out = "Recovered"
            /\ (Alive /\ cronRunning) =>
                 \A k \in DOMAIN entries : \A t \in (last.at + 1)..clock :
                     Matches(k, t) =>
                         \/ RunsAt(k, t) # {}
                         \/ t = clock /\ ENABLED CronRun)
    /\ [][(Returned # {} /\ last'.resp = Panic) =>
             /\ pc' = pc
             /\ exitCode' = exitCode
             /\ cronRunning' = cronRunning
             /\ entries' = entries
             /\ inflight' = inflight \ Returned]_vars

\* C4 witness: while Running, the job whose run panicked has been started again at a
\* later minute than the panic
C4_Witness ==
    /\ State = "Running"
    /\ last.resp = Panic
    /\ \E id \in DOMAIN history : history[id].e = last.e /\ history[id].at > last.at

\* the run loop serves entry k in this step: it moves the entry's next time on
Served(k) == entries[k].next >= 0 /\ entries'[k].next # entries[k].next

\* C5: when the run loop serves an entry that still has a run in flight, a new run of
\* the entry starts at that minute and the runs in flight stay in flight; and each of
\* two runs of one entry in flight can return whatever the other does
C5_OverlapNotSuppressed ==
    /\ [][\A k \in DOMAIN entries :
             (Served(k) /\ Running(k) # {}) =>
                 /\ \E id \in inflight' \ inflight : history'[id] = [e |-> k, at |-> clock]
                 /\ Running(k) \subseteq inflight']_vars
    /\ [](Alive => \A a, b \in inflight :
                      (a # b /\ history[a].e = history[b].e) => ENABLED RunEnd(a))

\* C5 witness: two runs of one entry, started at different minutes, are in flight
C5_Witness ==
    \E a, b \in inflight : history[a].e = history[b].e /\ history[a].at < history[b].at

\* C6: when any run has been started for a minute, every entry whose schedule matches
\* that minute has its run for it too (none is skipped or put off behind another), and
\* each of two runs of different entries in flight can return whatever the other does
C6_SameInstantBothRun ==
    /\ \A id \in DOMAIN history : \A k \in DOMAIN entries :
           Matches(k, history[id].at) => RunsAt(k, history[id].at) # {}
    /\ Alive => \A a, b \in inflight :
                   (history[a].e # history[b].e /\ history[a].at = history[b].at)
                       => ENABLED RunEnd(a)

\* C6 witness: of two runs of different entries started at the same minute, one has
\* returned and the other is still in flight
C6_Witness ==
    \E a \in inflight : \E b \in DOMAIN history \ inflight :
        history[a].e # history[b].e /\ history[a].at = history[b].at

\* config j of the loaded sequence has a well-formed schedule
WellFormed(j) == Parse(configs[j].Schedule).ok

\* the position, among the entries, of the well-formed config j
EntryOf(j) == Cardinality({x \in 1..j : WellFormed(x)})

\* the registration loop is past config j
Registered(j) == pc # "load" /\ j < i

\* the registration loop is past every config
LoopDone == pc # "load" /\ i > Len(configs)

\* C7: every well-formed config gets its entry when the loop reaches it; an entry has
\* no run for a minute at or before c.Start() or a minute its schedule does not match,
\* never two runs for one minute, and exactly one run for every matching minute that
\* has passed since c.Start() while the run loop is alive
C7_FiresAtEveryInstantAfterStart ==
    /\ \A j \in 1..Len(configs) :
           (Registered(j) /\ WellFormed(j)) =>
               /\ EntryOf(j) \in DOMAIN entries
               /\ entries[EntryOf(j)].conf = configs[j]
    /\ \A k \in DOMAIN entries : \A t \in 0..clock :
           LET n == Cardinality(RunsAt(k, t))
           IN /\ n <= 1
              /\ (startedAt < 0 \/ t <= startedAt \/ ~Matches(k, t)) => n = 0
              /\ (cronRunning /\ startedAt < t /\ t < clock /\ Matches(k, t)) => n = 1

\* C7 witness: the scheduler was started at a minute the entry's schedule matches, the
\* entry has no run for it, and it has a run for a later minute
C7_Witness ==
    \E k \in DOMAIN entries :
        /\ startedAt >= 0
        /\ Matches(k, startedAt)
        /\ RunsAt(k, startedAt) = {}
        /\ \E t \in (startedAt + 1)..clock : RunsAt(k, t) # {}


\* the events of the log about job name with message msg
Logged(msg, name) == {x \in DOMAIN log : log[x].msg = msg /\ log[x].job = name}

\* C8: a config with a malformed schedule that the registration loop has passed has its
\* error logged once, has no entry and no run, and has not ended the process with a
\* failure; past the loop every well-formed config has its entry and c.Start() follows
C8_MalformedScheduleIsSkipped ==
    /\ \A j \in 1..Len(configs) :
           (Registered(j) /\ ~WellFormed(j)) =>
               /\ Cardinality(Logged("Failed to add CRON job", configs[j].Name)) = 1
               /\ \A k \in DOMAIN entries : entries[k].conf # configs[j]
               /\ \A id \in DOMAIN history : entries[history[id].e].conf # configs[j]
               /\ exitCode # 1
               /\ pc = "done" => State = "Stopped"
    /\ (LoopDone /\ Len(configs) > 0) =>
           /\ \A j \in 1..Len(configs) :
                  WellFormed(j) => /\ EntryOf(j) \in DOMAIN entries
                                   /\ entries[EntryOf(j)].conf = configs[j]
           /\ Len(entries) = Cardinality({j \in 1..Len(configs) : WellFormed(j)})
           /\ pc \in {"notify", "wait", "stop", "drain", "done"} => startedAt >= 0

\* C8 witness: the first config was rejected for its schedule, the process is Running and
\* the entry of a later config has been started
C8_Witness ==
    /\ State = "Running"
    /\ Len(configs) > 1
    /\ ~WellFormed(1)
    /\ \E id \in DOMAIN history : entries[history[id].e].conf = configs[2]

\* C9: when loadConfigs finds no valid job, main is either not yet past it or has warned
\* and exited with status 0; the scheduler has no entry, was never started, and no run
\* was started
C9_NoJobsExitsCleanly ==
    Len(loadConfigs(env).configs) = 0 =>
        /\ \/ pc = "load"
           \/ pc = "killed" /\ log = <<>>
           \/ /\ pc = "done"
              /\ exitCode = 0
              /\ Len(log) > 0
              /\ log[Len(log)] = Event("WARN", "No valid jobs configured. Exiting.", "")
        /\ entries = <<>>
        /\ ~cronRunning
        /\ startedAt = -1
        /\ history = <<>>

\* C9 witness: jobs were defined, none was valid, and the process has exited with 0
C9_Witness ==
    /\ pc = "done"
    /\ exitCode = 0
    /\ configs = <<>>
    /\ env[1].schedule # Unset
    /\ startedAt = -1

\* C10: a configuration error drops only the job it is in, and when the errors leave
\* no job to schedule the scheduler is not started with no entry
C10_NoValidJobMeansCleanExit ==
    /\ LoopDone =>
           \A j \in 1..Len(configs) : WellFormed(j) => EntryOf(j) \in DOMAIN entries
    /\ (\A j \in 1..Len(loadConfigs(env).configs) :
            ~Parse(loadConfigs(env).configs[j].Schedule).ok) => ~cronRunning


---------------------------------------------------------------------------
(* The loader, read from the environment alone *)

\* the first index with no schedule key
FirstUnset(e) ==
    CHOOSE k \in 1..(Len(e) + 1) :
        /\ Getenv(e, k).schedule = Unset
        /\ \A x \in 1..(k - 1) : Getenv(e, x).schedule # Unset

\* the declared type of index k, http when none is declared
DeclaredType(k) == IF Getenv(env, k).jobType = "" THEN "http" ELSE Getenv(env, k).jobType

\* index k misses a field its declared type requires
MissingRequired(k) ==
    \/ DeclaredType(k) = "http" /\ (Getenv(env, k).url = "" \/ Getenv(env, k).secret = "")
    \/ DeclaredType(k) = "shell" /\ Getenv(env, k).command = ""

\* index k holds a job of a known type with every required field
ValidAt(k) == DeclaredType(k) \in {"http", "shell"} /\ ~MissingRequired(k)

\* the indices the scan reaches
Scanned == 1..(FirstUnset(env) - 1)

\* the name the loader gives the job of index k
NameAt(k) ==
    IF Getenv(env, k).name = "" THEN "job_#" \o ToString(k) ELSE Getenv(env, k).name

\* the events of the log about the job of index k at a level
EventsAt(k, level) == {x \in DOMAIN log : log[x].job = NameAt(k) /\ log[x].level = level}

\* the skip messages for a missing required field
MissingFieldSkips ==
    {"Skipping invalid job configuration: " \o r :
        r \in {"CRON_TARGET_URL is required", "CRON_SECRET is required",
               "SHELL_COMMAND is required"}}

\* C11: once the loader has returned, every scanned index that misses a required field
\* has no config, no entry, exactly one error event (a skip with the reason of a missing
\* field) and no load event, and every valid scanned index, before or after it, has
\* its config in the sequence, which holds no other config
C11_MissingFieldSkipsOnlyThatJob ==
    pc # "load" =>
        /\ \A k \in Scanned :
               MissingRequired(k) =>
                   /\ \A j \in DOMAIN configs : configs[j].Name # NameAt(k)
                   /\ \A x \in DOMAIN entries : entries[x].conf.Name # NameAt(k)
                   /\ Cardinality(EventsAt(k, "ERROR")) = 1
                   /\ \A x \in EventsAt(k, "ERROR") : log[x].msg \in MissingFieldSkips
                   /\ EventsAt(k, "INFO") = {}
        /\ \A k \in Scanned :
               ValidAt(k) => \E j \in DOMAIN configs : configs[j] = ConfigOf(env, k)
        /\ Len(configs) = Cardinality({k \in Scanned : ValidAt(k)})

\* C11 witness: between two valid jobs, index 2 declares http with neither URL nor
\* secret; the loop has handed both valid jobs to the scheduler
C11_Witness ==
    /\ pc = "start"
    /\ Scanned = 1..3
    /\ ValidAt(1) /\ ValidAt(3)
    /\ DeclaredType(2) = "http" /\ env[2].url = "" /\ env[2].secret = ""
    /\ Len(entries) = 2

\* the valid indices below the first unset schedule
ValidBelow == {k \in Scanned : ValidAt(k)}

\* the position of the valid index k in the returned sequence
Rank(k) == Cardinality({x \in ValidBelow : x <= k})

\* C12: once the loader has returned, the sequence holds the configs of the valid
\* indices below the first unset schedule, in the order of their indices, and nothing
\* else; an index above the gap has left no config and no event
C12_ScanStopsAtFirstGap ==
    pc # "load" =>
        /\ Len(configs) = Cardinality(ValidBelow)
        /\ \A k \in ValidBelow : configs[Rank(k)] = ConfigOf(env, k)
        /\ \A k \in (FirstUnset(env) + 1)..Len(env) :
               (\A x \in Scanned : NameAt(x) # NameAt(k)) =>
                   /\ \A j \in DOMAIN configs : configs[j].Name # NameAt(k)
                   /\ \A x \in DOMAIN log : log[x].job # NameAt(k)

\* C12 witness: index 2 has no schedule, the valid job of index 3 lies above the gap and
\* the loader has returned the job of index 1 alone
C12_Witness ==
    /\ pc # "load"
    /\ ValidAt(1)
    /\ env[2].schedule = Unset
    /\ env[3].schedule # Unset /\ ValidAt(3)
    /\ Len(configs) = 1


\* the type of the job whose run returned last, "none" before any return
LastType == IF last.e \in DOMAIN entries THEN entries[last.e].conf.JobType ELSE "none"

\* C13: an http run that ended with a response or an error of the transport has exactly
\* one outcome: Failure for an error before any response (the client's timeout
\* included), Failure for a status of 400 or more, Success for a status below 400 (200
\* to 399); it logs one event, an error for Failure and the completion for Success
C13_HttpOutcomeByStatus ==
    (LastType = "http" /\ last.resp # Panic) =>
        /\ last.out \in {"Success", "Failure"}
        /\ last.resp.kind \in {"error", "timeout"} => last.out = "Failure"
        /\ last.resp.kind = "status" =>
               /\ last.out = "Failure" <=> last.resp.code >= 400
               /\ last.resp.code \in 200..399 => last.out = "Success"
        /\ Len(last.logged) = 1
        /\ last.logged[1].level = "ERROR" <=> last.out = "Failure"
        /\ last.logged[1].msg = "Job completed successfully" <=> last.out = "Success"

\* C13 witness: an http run got the status 400 and ended as a Failure
C13_Witness ==
    /\ LastType = "http"
    /\ last.resp = Resp("status", 400, FALSE)
    /\ last.out = "Failure"

\* the events of a level in what the last run logged
LoggedAt(level) == {x \in DOMAIN last.logged : last.logged[x].level = level}

\* C14: a shell run that ended is a Failure when the subprocess did not start, was
\* killed at the deadline or exited with a status other than 0, and a Success in every
\* other case; output on stderr is logged as an error and decides nothing: the outcome
\* is the one of the same response without stderr
C14_ShellOutcomeByExit ==
    (LastType = "shell" /\ last.resp # Panic) =>
        /\ last.out \in {"Success", "Failure"}
        /\ last.out = "Failure" <=>
               \/ last.resp.kind \in {"start_error", "timeout"}
               \/ last.resp.kind = "exit" /\ last.resp.code # 0
        /\ last.resp.stderr <=>
               \E x \in LoggedAt("ERROR") : last.logged[x].msg = "Command stderr"
        /\ last.out = ShellOutcome([last.resp EXCEPT !.stderr = FALSE])
        /\ last.out = "Success" <=>
               \E x \in LoggedAt("INFO") : last.logged[x].msg = "Job completed successfully"
        /\ (last.resp.kind = "exit" /\ last.resp.code = 0 /\ last.resp.stderr) =>
               last.out = "Success"

\* C14 witness: a shell run exited with status 0, wrote to stderr and ended as a Success
C14_Witness ==
    /\ LastType = "shell"
    /\ last.resp = Resp("exit", 0, TRUE)
    /\ last.out = "Success"
    /\ Len(last.logged) = 2


\* the minute at which the timeout of run id is due
Deadline(id) == history[id].at + Timeout(entries[history[id].e].conf.JobType)

\* C15: no run is in flight after the minute of its timeout (60 s for http, 5 min for
\* shell), and a run ended by its timeout is a Failure
C15_NoRunOutlivesItsTimeout ==
    /\ \A id \in inflight : clock <= Deadline(id)
    /\ last.resp.kind = "timeout" => last.out = "Failure"


\* C16: the step in which a run returns as a Failure starts no run and changes nothing
\* of main or of the scheduler's entries; every run is at a minute its entry's schedule
\* matches and no entry has two runs for one minute; and, while the run loop is alive,
\* every entry has its run for each of its minutes that came after the failure (for the
\* current minute the run loop may still be about to start it)
C16_FailureLeavesScheduleAlone ==
    /\ [][(Returned # {} /\ last'.out = "Failure") =>
             /\ history' = history
             /\ entries' = entries
             /\ cronRunning' = cronRunning
             /\ pc' = pc
             /\ exitCode' = exitCode
             /\ inflight' = inflight \ Returned]_vars
    /\ [](\A id \in DOMAIN history :
              /\ Matches(history[id].e, history[id].at)
              /\ Cardinality(RunsAt(history[id].e, history[id].at)) = 1)
    /\ []((last.out = "Failure" /\ Alive /\ cronRunning) =>
              \A k \in DOMAIN entries : \A t \in (last.at + 1)..clock :
                  Matches(k, t) =>
                      \/ RunsAt(k, t) # {}
                      \/ t = clock /\ ENABLED CronRun)

\* C16 witness: while Running, a run of a job has failed and the next run of the same
\* job has been started at a later minute, the only run of that minute
C16_Witness ==
    /\ State = "Running"
    /\ last.out = "Failure"
    /\ Len(entries) = 2
    /\ \E id \in DOMAIN history :
           /\ history[id].e = last.e
           /\ history[id].at > last.at
           /\ RunsAt(last.e, history[id].at) = {id}


\* C17: the process leaves Running only by a signal: to ShuttingDown by taking one from
\* the quit channel, or ended by one that came before the channel was installed; the
\* quit channel is filled only by a step that does nothing else (no run returns, no run
\* starts, main does not move); and a step in which a run returns, with any outcome or
\* recovered from a panic, leaves the state as it is
C17_OnlySignalLeavesRunning ==
    /\ [][(State = "Running" /\ State' # "Running") =>
             \/ /\ State' = "ShuttingDown"
                /\ handler
                /\ quit > 0
                /\ quit' = quit - 1
             \/ /\ pc' = "killed"
                /\ ~handler
                /\ exitCode' \in {128 + Signo("SIGINT"), 128 + Signo("SIGTERM")}]_vars
    /\ [][quit' > quit =>
             /\ handler
             /\ pc' = pc
             /\ Returned = {}
             /\ history' = history
             /\ last' = last]_vars
    /\ [][Returned # {} => State' = State]_vars

\* C17 witness: a schedule was rejected at registration, a run has failed while another
\* is in flight, and main has just taken the signal
C17_Witness ==
    /\ pc = "stop"
    /\ \E x \in DOMAIN log : log[x].msg = "Failed to add CRON job"
    /\ last.out = "Failure"
    /\ inflight # {}


\* the single-job runner's configuration is fatal: no target URL, no secret, or a
\* schedule (the default one when none is set) the parser rejects
FatalConfig ==
    \/ Getenv(env, 0).url = ""
    \/ Getenv(env, 0).secret = ""
    \/ ~Parse(IF Getenv(env, 0).schedule = Unset THEN DefaultSchedule
              ELSE Getenv(env, 0).schedule).ok

\* C18: the exit status is 0 when the process is Stopped after a signal and on the early
\* exit of the multi-job runner without a valid job; it is 1 only in the single-job
\* runner with a fatal configuration, before the scheduler was started, and that runner
\* never starts the scheduler with one; any other status is the end by a signal that
\* came before the handler; and a step in which a run returns, whatever its outcome,
\* leaves main and the exit status as they are
C18_ExitStatus ==
    /\ [](State = "Stopped" => exitCode = 0)
    /\ []((~SingleRunner /\ pc = "done" /\ startedAt < 0) =>
              (exitCode = 0 /\ configs = <<>>))
    /\ [](exitCode = 1 =>
              (SingleRunner /\ FatalConfig /\ startedAt < 0 /\ history = <<>>))
    /\ []((SingleRunner /\ FatalConfig) =>
              /\ ~cronRunning
              /\ startedAt < 0
              /\ pc = "done" => exitCode = 1)
    /\ [](exitCode \notin {-1, 0, 1} => (pc = "killed" /\ ~handler))
    /\ [][Returned # {} => (exitCode' = exitCode /\ pc' = pc)]_vars

\* C18 witness: the single-job runner, with URL and secret set and a schedule the parser
\* rejects, has exited with status 1
C18_Witness ==
    /\ SingleRunner
    /\ Getenv(env, 0).url # "" /\ Getenv(env, 0).secret # ""
    /\ pc = "done"
    /\ exitCode = 1


\* C19: a signal never ends the process while a job run is in flight
C19_SignalNeverCutsARun ==
    pc = "killed" => inflight = {}

\* the moves of the lifecycle the state machine names
Forward ==
    { <<"Loading", "Scheduling">>, <<"Scheduling", "Running">>,
      <<"Running", "ShuttingDown">>, <<"ShuttingDown", "Stopped">> }

\* C20: the state changes only along Loading, Scheduling, Running, ShuttingDown,
\* Stopped, one state at a time, or by the early exit from Loading with status 0 and no
\* config (or, before the scheduler was started, by a signal from outside); nothing
\* changes the state once Stopped; and a run is started only in the state Running
C20_LifecycleForwardOnly ==
    /\ [][State' # State =>
             \/ <<State, State'>> \in Forward
             \/ /\ State = "Loading"
                /\ pc' = "done"
                /\ exitCode' = 0
                /\ configs' = <<>>
             \/ pc' = "killed" /\ startedAt < 0]_vars
    /\ [][State = "Stopped" => State' = "Stopped"]_vars
    /\ [][history' # history => State = "Running"]_vars


\* the kinds of job the runner knows
KnownTypes == {"http", "shell"}

\* loadConfigs has returned (it logs an event for every index it reads, and main
\* warns when it returns nothing)
LoaderReturned == pc # "load" /\ log # <<>>

\* C21: every config the loader returns, and so every config the registration loop
\* passes, has the type http or shell; every entry holds the closure of its config's
\* type, never a nil one; every run is one of such an entry, and the run that returned
\* last ended the way a run of its kind ends
C21_UnknownTypeNeverRegistered ==
    /\ \A j \in DOMAIN configs : configs[j].JobType \in KnownTypes
    /\ \A k \in DOMAIN entries :
           /\ entries[k].job \in KnownTypes
           /\ entries[k].job = entries[k].conf.JobType
    /\ \A id \in DOMAIN history : entries[history[id].e].job \in KnownTypes
    /\ \A k \in 1..Len(env) :
           (LoaderReturned /\ k \in Scanned /\ DeclaredType(k) \notin KnownTypes) =>
               /\ \A j \in DOMAIN configs : configs[j].Name # NameAt(k)
               /\ \E x \in EventsAt(k, "ERROR") :
                      log[x].msg = "Skipping invalid job configuration: unknown JOB_TYPE: "
                                       \o DeclaredType(k)
    /\ last.e \in DOMAIN entries =>
           last.resp \in Responses(entries[last.e].job) \cup {Panic}

\* C21 witness: index 1 declares the type ftp, the job of index 2 is registered and a
\* run of it has returned
C21_Witness ==
    /\ Len(env) = 2
    /\ DeclaredType(1) = "ftp"
    /\ Len(entries) = 1
    /\ last.e = 1
    /\ last.out \in {"Success", "Failure"}


\* the config that entry k was registered for: the k-th of the well-formed configs
Origin(k) == CHOOSE j \in DOMAIN configs : WellFormed(j) /\ EntryOf(j) = k

\* C22: every entry holds the config it was registered for, and the run that returned
\* last read the name and the action fields of the config its entry was registered
\* for; a step that starts or ends a run changes no config, neither in the loaded
\* sequence nor in an entry
C22_RunUsesItsOwnConfig ==
    /\ [](\A k \in DOMAIN entries : entries[k].conf = configs[Origin(k)])
    /\ [](last.e \in DOMAIN entries =>
              /\ last.conf.Name = configs[Origin(last.e)].Name
              /\ last.conf.TargetURL = configs[Origin(last.e)].TargetURL
              /\ last.conf.SecretToken = configs[Origin(last.e)].SecretToken
              /\ last.conf.ShellCommand = configs[Origin(last.e)].ShellCommand
              /\ last.conf.ShellTargetContainer = configs[Origin(last.e)].ShellTargetContainer)
    /\ [][(Returned # {} \/ history' # history) =>
             /\ configs' = configs
             /\ \A k \in DOMAIN entries : entries'[k].conf = entries[k].conf]_vars

\* C22 witness: two jobs with different names and actions are registered, and a run of
\* the first, not the last, has returned
C22_Witness ==
    /\ Len(entries) = 2
    /\ entries[1].conf.JobType # entries[2].conf.JobType
    /\ entries[1].conf.Name # entries[2].conf.Name
    /\ last.e = 1
    /\ last.out \in {"Success", "Failure"}
    /\ last.conf = configs[1]


\* C23: every http job the scheduler holds has a target URL that is not empty and parses
\* as a URL, and a secret that is not empty
C23_RegisteredHttpJobIsValid ==
    \A k \in DOMAIN entries :
        entries[k].job = "http" =>
            /\ entries[k].conf.TargetURL # ""
            /\ URLParses(entries[k].conf.TargetURL)
            /\ entries[k].conf.SecretToken # ""


\* the events of the log that report the start of the scheduler
StartEvents ==
    {x \in DOMAIN log : log[x].msg = "CRON scheduler started with configured jobs."}

\* the entries that have had a run
Fired == {history[id].e : id \in DOMAIN history}

\* C24: once the scheduler is started the log holds one start event; its job count is
\* the number of entries, which is the number of loaded configs less those with a
\* malformed schedule; only entries have runs, and every entry is armed: it has a next
\* time after the start, and the run loop starts it when that time has come
C24_JobCountIsEntryCount ==
    startedAt >= 0 =>
        /\ Cardinality(StartEvents) = 1
        /\ \A x \in StartEvents : log[x].job = ToString(Len(entries))
        /\ Len(entries) = Len(configs) - Cardinality({j \in DOMAIN configs : ~WellFormed(j)})
        /\ Fired \subseteq DOMAIN entries
        /\ Cardinality(Fired) <= Len(entries)
        /\ \A k \in DOMAIN entries :
               /\ entries[k].next > startedAt
               /\ (Alive /\ cronRunning /\ entries[k].next <= clock) => ENABLED CronRun

\* C24 witness: of two loaded configs one had a malformed schedule; the start event
\* reports one job and that one job has fired
C24_Witness ==
    /\ startedAt >= 0
    /\ Len(configs) = 2
    /\ Len(entries) = 1
    /\ \E x \in StartEvents : log[x].job = "1"
    /\ Fired = {1}


\* the trigger of an entry: the config it was registered for (its schedule included)
\* and the job bound to it
Trigger(e) == [conf |-> e.conf, job |-> e.job]

\* C25: once the scheduler is started no step adds, removes or rebinds a trigger: the
\* entries keep their number, and each keeps its config, schedule and job, whatever
\* fires, fails, panics or is signalled
C25_TriggersFixedAfterStart ==
    [][startedAt >= 0 =>
          /\ Len(entries') = Len(entries)
          /\ \A k \in DOMAIN entries : Trigger(entries'[k]) = Trigger(entries[k])]_vars

\* C25 witness: two triggers have fired, a run has panicked, a signal has been taken
\* and c.Stop() has been called; both entries still hold the config and job they were
\* registered with
C25_Witness ==
    /\ startedAt >= 0
    /\ pc = "drain"
    /\ last.resp = Panic
    /\ Fired = {1, 2}
    /\ Len(entries) = 2
    /\ \A k \in DOMAIN entries : Trigger(entries[k]) = [conf |-> configs[k], job |-> JobOf(configs[k])]


\* C26: while the process is ShuttingDown a further signal only lands on quit: the
\* step that takes it changes nothing else, no step ends the process other than main's
\* return, and main returns, with status 0, only when no run is in flight
C26_FurtherSignalOnlyQueued ==
    [][State = "ShuttingDown" =>
          /\ State' \in {"ShuttingDown", "Stopped"}
          /\ State' = "Stopped" => (inflight = {} /\ inflight' = {} /\ exitCode' = 0)
          /\ quit' # quit =>
                 /\ quit' = quit + 1
                 /\ UNCHANGED <<pc, cronRunning, entries, history, inflight, held, last,
                                exitCode, log>>]_vars

\* C26 witness: c.Stop() has been called, main waits for a run that is still in flight,
\* and a signal that arrived after the one main took sits on quit
C26_Witness ==
    /\ pc = "drain"
    /\ handler
    /\ quit = 1
    /\ inflight # {}

===========================================================================
